---------------------------- MODULE Spec2Model ----------------------------
(***************************************************************************)
(* RCTBaseMesh texture binding (ReactVR/js/Views/BaseMesh.js).             *)
(*                                                                         *)
(* Each view keeps _textureURL (bound key), _loadingURL (key of the        *)
(* request in flight) and _texture (bound resource), and talks to the      *)
(* shared TextureManager through addReference / removeReference /          *)
(* getTextureForURL.  The promise returned by getTextureForURL settles     *)
(* later, on the same event loop, in an order the view does not control.   *)
(* The TextureManager keeps, per url, the loaded texture and the load in   *)
(* flight, which the fetches of that url share.                            *)
(***************************************************************************)
EXTENDS Integers, Sequences, FiniteSets, TLC

(* ------------------------------ bounds --------------------------------- *)
NumViews == 2
MaxRequests == 3

Views == 1..NumViews
Keys == {"a", "b"}

(* ------------------------------ values --------------------------------- *)
\* JavaScript null (and undefined)
Null == "null"

\* ResourceSpecifier = void | null | string | {uri: string}; an object whose
\* uri is not a string carries uri = Null
Specifiers ==
  {[kind |-> "null", uri |-> Null]}
    \cup [kind : {"string"}, uri : Keys \cup {""}]
    \cup [kind : {"object"}, uri : Keys \cup {"", Null}]

\* !value for a ResourceSpecifier: null, undefined and '' are falsy, every
\* object is truthy
IsFalsyValue(value) ==
  \/ value.kind = "null"
  \/ value.kind = "string" /\ value.uri = ""

\* Utils/extractURL: a string is its own URL, an object gives its string uri,
\* anything else gives null
extractURL(value) ==
  IF value.kind = "string" THEN value.uri
  ELSE IF value.kind = "object" THEN value.uri
  ELSE Null

\* !url : null and the empty string are falsy
IsInvalidURLMutant(url) == url = Null

IsInvalidURL(url) == url = Null \/ url = ""

\* truthiness of this._textureURL / this._texture
IsSet(x) == x # Null /\ x # ""

\* the Texture the manager resolves getTextureForURL(url) with
TextureFor(url) == IF url = "a" THEN "texture(a)" ELSE "texture(b)"

\* TextureManager reference counting
addReference(rc, url) == [rc EXCEPT ![url] = @ + 1]

removeReference(rc, url) == [rc EXCEPT ![url] = @ - 1]

(* ------------------------------ state ---------------------------------- *)
VARIABLES
  textureURL,        \* _textureURL of each view
  loadingURL,        \* _loadingURL of each view
  texture,           \* _texture of each view
  litMaterial,       \* _litMaterial of each view: its map, and whether it
                     \* was disposed
  unlitMaterial,     \* _unlitMaterial of each view
  refcount,          \* TextureManager's reference count per URL
  requests,          \* the getTextureForURL calls whose promise has not
                     \* settled, in call order: the view and the url
  issued,            \* number of getTextureForURL calls made so far
  held,              \* per view and URL: its addReference calls so far minus
                     \* its removeReference calls so far
  resource,          \* TextureManager: the texture it keeps per URL, if any
  pending,           \* TextureManager: whether it has a load in flight per URL
  loading,           \* the loader: per URL, its load calls not yet settled
  outcome,           \* for each pending request, whether its promise is still
                     \* "waiting", or "fulfilled" or "rejected" with its
                     \* callback yet to run
  since,             \* history: for each pending request, what its view did
                     \* since the call
  life,              \* history: "live"; "disposed" once dispose() ran;
                     \* "reused" once _setTexture was then called with a url
  released,          \* history: the url whose reference the first dispose()
                     \* of the view gave back, if any
  failed,            \* history: per view, the urls of its requests that
                     \* failed without having been superseded
  lastOp             \* history: the call or callback that ran last

\* The needsUpdate flags of the materials and of the texture are dirty bits
\* for the renderer; no decision of this class reads them and they are left
\* out.

view == <<textureURL, loadingURL, texture, litMaterial, unlitMaterial>>

manager == <<refcount, resource, pending, loading>>

program == <<view, manager, requests, outcome, issued, held>>

history == <<since, life, released, failed, lastOp>>

vars == <<program, history>>

NewMaterial == [map |-> Null, disposed |-> FALSE]

NewRequest(v, url) == [view |-> v, url |-> url]

Init ==
  /\ textureURL = [v \in Views |-> Null]
  /\ loadingURL = [v \in Views |-> Null]
  /\ texture = [v \in Views |-> Null]
  /\ litMaterial = [v \in Views |-> NewMaterial]
  /\ unlitMaterial = [v \in Views |-> NewMaterial]
  /\ refcount = [k \in Keys |-> 0]
  /\ requests = <<>>
  /\ issued = 0
  /\ held = [v \in Views |-> [k \in Keys |-> 0]]
  /\ resource = [k \in Keys |-> Null]
  /\ pending = [k \in Keys |-> FALSE]
  /\ loading = [k \in Keys |-> 0]
  /\ outcome = <<>>
  /\ since = <<>>
  /\ life = [v \in Views |-> "live"]
  /\ released = [v \in Views |-> Null]
  /\ failed = [v \in Views |-> {}]
  /\ lastOp = [op |-> "constructor", view |-> 0, arg |-> "-", url |-> Null,
               threw |-> FALSE, since |-> "nothing", applied |-> FALSE]

(* ------------------------- pieces of the handlers ---------------------- *)
\* this._texture && this._textureURL : the release shared by
\* _setTexture(null) and dispose() drops the url's reference
ReleasesURLMutant(v) == IsSet(texture[v]) /\ IsSet(loadingURL[v])

ReleasesURL(v) == IsSet(texture[v]) /\ IsSet(textureURL[v])

\* the success callback's staleness test
IsStaleMutant(v, url) == FALSE

IsStale(v, url) == url # loadingURL[v]

\* the url whose reference the success callback drops when it applies `url`
ReplacedURLMutant(v, url) == url

ReplacedURL(v, url) == textureURL[v]

\* _loadingURL once _setTexture(url) has asked for url
LoadingURLOnRequestMutant(v, url) == loadingURL[v]

LoadingURLOnRequest(v, url) == url

\* _loadingURL after the failure callback
LoadingURLAfterFailureMutant(v) == loadingURL[v]

LoadingURLAfterFailure(v) == Null

\* the pending requests of view v
PendingOf(v) == {i \in DOMAIN requests : requests[i].view = v}

\* a sequence without its i-th element
Without(seq, i) ==
  [j \in 1..(Len(seq) - 1) |-> IF j < i THEN seq[j] ELSE seq[j + 1]]

(* --------------------------- TextureManager ---------------------------- *)
\* the manager already keeps the texture of url
HasResource(url) == url \in DOMAIN resource /\ resource[url] # Null

\* a fetch finds a load of url in flight and waits for it
JoinsPendingMutant(url) == FALSE

JoinsPending(url) == url \in DOMAIN pending /\ pending[url]

\* getTextureForURL(url), called by view v: resolves with the texture the
\* manager keeps, or joins the load in flight, or starts the load
getTextureForURL(v, url) ==
  /\ requests' = Append(requests, NewRequest(v, url))
  /\ IF HasResource(url) THEN
       /\ outcome' = Append(outcome, "fulfilled")
       /\ UNCHANGED <<pending, loading>>
     ELSE IF JoinsPending(url) THEN
       /\ outcome' = Append(outcome, "waiting")
       /\ UNCHANGED <<pending, loading>>
     ELSE
       /\ outcome' = Append(outcome, "waiting")
       /\ pending' = [pending EXCEPT ![url] = TRUE]
       /\ loading' = [loading EXCEPT ![url] = @ + 1]
  /\ UNCHANGED resource

\* the outcomes once a load of url has settled with `result`: every fetch
\* waiting for url gets it
Settled(url, result) ==
  [i \in DOMAIN requests |->
     IF requests[i].url = url /\ outcome[i] = "waiting" THEN result
     ELSE outcome[i]]

\* a load of url ends with its texture
LoadSucceeds(url) ==
  /\ loading[url] > 0
  /\ loading' = [loading EXCEPT ![url] = @ - 1]
  /\ pending' = [pending EXCEPT ![url] = FALSE]
  /\ resource' = [resource EXCEPT ![url] = TextureFor(url)]
  /\ outcome' = Settled(url, "fulfilled")
  /\ UNCHANGED <<view, refcount, requests, issued, held>>

\* a load of url ends with an error
LoadFails(url) ==
  /\ loading[url] > 0
  /\ loading' = [loading EXCEPT ![url] = @ - 1]
  /\ pending' = [pending EXCEPT ![url] = FALSE]
  /\ outcome' = Settled(url, "rejected")
  /\ UNCHANGED <<view, refcount, resource, requests, issued, held>>

\* the manager drops the texture of a url that nothing references
Evict(url) ==
  /\ refcount[url] = 0
  /\ HasResource(url)
  /\ resource' = [resource EXCEPT ![url] = Null]
  /\ UNCHANGED <<view, refcount, pending, loading, requests, outcome, issued,
                 held>>

(* ------------------------------ actions -------------------------------- *)
\* _setTexture(value): the `texture` property setter
_setTexture(v, value) ==
  IF IsFalsyValue(value) THEN
    /\ texture' = [texture EXCEPT ![v] = Null]
    /\ IF ReleasesURL(v)
       THEN /\ refcount' = removeReference(refcount, textureURL[v])
            /\ held' = [held EXCEPT ![v][textureURL[v]] = @ - 1]
            /\ textureURL' = [textureURL EXCEPT ![v] = Null]
       ELSE UNCHANGED <<refcount, held, textureURL>>
    /\ litMaterial' = [litMaterial EXCEPT ![v].map = Null]
    /\ unlitMaterial' = [unlitMaterial EXCEPT ![v].map = Null]
    /\ UNCHANGED <<loadingURL, resource, pending, loading, requests, outcome,
                   issued>>
  ELSE LET url == extractURL(value) IN
    IF IsInvalidURL(url) THEN
      \* throw new Error('Invalid value for "texture" property: ...')
      UNCHANGED program
    ELSE
      /\ issued < MaxRequests
      /\ loadingURL' = [loadingURL EXCEPT ![v] = LoadingURLOnRequest(v, url)]
      /\ refcount' = addReference(refcount, url)
      /\ held' = [held EXCEPT ![v][url] = @ + 1]
      /\ getTextureForURL(v, url)
      /\ issued' = issued + 1
      /\ UNCHANGED <<textureURL, texture, litMaterial, unlitMaterial>>

\* the promise of the i-th pending request is fulfilled: texture => {...}
Resolve(i) ==
  /\ i \in DOMAIN requests
  /\ outcome[i] = "fulfilled"
  /\ LET v == requests[i].view
         url == requests[i].url
     IN
     IF IsStale(v, url) THEN
       \* We've started to load another texture since this request began
       /\ refcount' = removeReference(refcount, url)
       /\ held' = [held EXCEPT ![v][url] = @ - 1]
       /\ UNCHANGED <<textureURL, loadingURL, texture, litMaterial,
                      unlitMaterial>>
     ELSE
       /\ loadingURL' = [loadingURL EXCEPT ![v] = Null]
       /\ IF IsSet(textureURL[v])
          THEN /\ refcount' = removeReference(refcount, ReplacedURL(v, url))
               /\ held' = [held EXCEPT ![v][ReplacedURL(v, url)] = @ - 1]
          ELSE UNCHANGED <<refcount, held>>
       /\ texture' = [texture EXCEPT ![v] = TextureFor(url)]
       /\ textureURL' = [textureURL EXCEPT ![v] = url]
       /\ litMaterial' = [litMaterial EXCEPT ![v].map = TextureFor(url)]
       /\ unlitMaterial' = [unlitMaterial EXCEPT ![v].map = TextureFor(url)]
  /\ requests' = Without(requests, i)
  /\ outcome' = Without(outcome, i)
  /\ UNCHANGED <<resource, pending, loading, issued>>

\* the promise of the i-th pending request is rejected: err => {...}
Reject(i) ==
  /\ i \in DOMAIN requests
  /\ outcome[i] = "rejected"
  /\ LET v == requests[i].view
         url == requests[i].url
     IN
     /\ refcount' = removeReference(refcount, url)
     /\ held' = [held EXCEPT ![v][url] = @ - 1]
     /\ loadingURL' = [loadingURL EXCEPT ![v] = LoadingURLAfterFailure(v)]
  /\ requests' = Without(requests, i)
  /\ outcome' = Without(outcome, i)
  /\ UNCHANGED <<textureURL, texture, litMaterial, unlitMaterial, resource,
                 pending, loading, issued>>

\* dispose(); super.dispose(), mesh and _geometry belong to the scene graph
\* and are left out
dispose(v) ==
  /\ texture' = [texture EXCEPT ![v] = Null]
  /\ IF ReleasesURL(v)
     THEN /\ refcount' = removeReference(refcount, textureURL[v])
          /\ held' = [held EXCEPT ![v][textureURL[v]] = @ - 1]
          /\ textureURL' = [textureURL EXCEPT ![v] = Null]
     ELSE UNCHANGED <<refcount, held, textureURL>>
  /\ litMaterial' = [litMaterial EXCEPT ![v].disposed = TRUE]
  /\ unlitMaterial' = [unlitMaterial EXCEPT ![v].disposed = TRUE]
  /\ UNCHANGED <<loadingURL, resource, pending, loading, requests, outcome,
                 issued>>

(* ------------------------------ history -------------------------------- *)
\* since[i] is the most telling thing the view of the i-th pending request did
\* since that request was made:
\*   "nothing"           no call on the view since
\*   "cleared"           _setTexture(null) ran, no _setTexture(url) after it
\*   "disposed"          dispose() ran, no _setTexture(url) after it
\*   "cleared, disposed" both ran, no _setTexture(url) after them
\*   "repeated"          _setTexture ran again, with the same url only
\*   "superseded"        _setTexture ran again with another url
AfterClear(v) ==
  [i \in DOMAIN requests |->
     IF requests[i].view # v THEN since[i]
     ELSE IF since[i] = "nothing" THEN "cleared"
     ELSE IF since[i] = "disposed" THEN "cleared, disposed"
     ELSE since[i]]

AfterDispose(v) ==
  [i \in DOMAIN requests |->
     IF requests[i].view # v THEN since[i]
     ELSE IF since[i] = "nothing" THEN "disposed"
     ELSE IF since[i] = "cleared" THEN "cleared, disposed"
     ELSE since[i]]

AfterRequest(v, url) ==
  [i \in DOMAIN requests |->
     IF requests[i].view # v \/ since[i] = "superseded" THEN since[i]
     ELSE IF requests[i].url = url THEN "repeated"
     ELSE "superseded"]

\* What ran last: the call or callback and its view; for _setTexture the kind
\* of its argument ("none": null, undefined or ''; "key": a url can be derived
\* from it; "invalid": anything else) and whether it threw; the url asked for
\* or settled; for a callback what `since` said of the request it settled and
\* whether it made the texture the view's texture.
ArgKind(value) ==
  IF value.kind = "null" \/ (value.kind = "string" /\ value.uri = "")
  THEN "none"
  ELSE IF value.uri \in Keys THEN "key" ELSE "invalid"

\* _setTexture(value) ran on view v
SetTextureSeen(v, value) ==
  IF IsFalsyValue(value) THEN
    /\ lastOp' = [op |-> "_setTexture", view |-> v, arg |-> ArgKind(value),
                  url |-> Null, threw |-> FALSE, since |-> "nothing",
                  applied |-> FALSE]
    /\ since' = AfterClear(v)
    /\ UNCHANGED <<life, released, failed>>
  ELSE LET url == extractURL(value) IN
    IF IsInvalidURL(url) THEN
      /\ lastOp' = [op |-> "_setTexture", view |-> v, arg |-> ArgKind(value),
                    url |-> Null, threw |-> TRUE, since |-> "nothing",
                    applied |-> FALSE]
      /\ UNCHANGED <<since, life, released, failed>>
    ELSE
      /\ lastOp' = [op |-> "_setTexture", view |-> v, arg |-> ArgKind(value),
                    url |-> url, threw |-> FALSE, since |-> "nothing",
                    applied |-> FALSE]
      /\ since' = Append(AfterRequest(v, url), "nothing")
      /\ life' = [life EXCEPT ![v] = IF @ = "live" THEN @ ELSE "reused"]
      /\ UNCHANGED <<released, failed>>

\* the success callback of the i-th pending request ran
ResolveSeen(i) ==
  LET v == requests[i].view
      url == requests[i].url
  IN
  /\ lastOp' = [op |-> "resolve", view |-> v, arg |-> "-", url |-> url,
                threw |-> FALSE, since |-> since[i],
                applied |-> ~IsStale(v, url)]
  /\ since' = Without(since, i)
  /\ UNCHANGED <<life, released, failed>>

\* the failure callback of the i-th pending request ran
RejectSeen(i) ==
  LET v == requests[i].view
      url == requests[i].url
  IN
  /\ lastOp' = [op |-> "reject", view |-> v, arg |-> "-", url |-> url,
                threw |-> FALSE, since |-> since[i], applied |-> FALSE]
  /\ since' = Without(since, i)
  /\ failed' = IF since[i] = "superseded" THEN failed
               ELSE [failed EXCEPT ![v] = @ \cup {url}]
  /\ UNCHANGED <<life, released>>

\* dispose() ran on view v
DisposeSeen(v) ==
  /\ lastOp' = [op |-> "dispose", view |-> v, arg |-> "-", url |-> Null,
                threw |-> FALSE, since |-> "nothing", applied |-> FALSE]
  /\ since' = AfterDispose(v)
  /\ life' = [life EXCEPT ![v] = IF @ = "live" THEN "disposed" ELSE @]
  /\ released' = IF life[v] = "live" /\ ReleasesURL(v)
                 THEN [released EXCEPT ![v] = textureURL[v]]
                 ELSE released
  /\ UNCHANGED failed

\* the manager or the loader took a step about url: no view ran
ManagerSeen(op, url) ==
  /\ lastOp' = [op |-> op, view |-> 0, arg |-> "-", url |-> url,
                threw |-> FALSE, since |-> "nothing", applied |-> FALSE]
  /\ UNCHANGED <<since, life, released, failed>>

\* nothing is recorded but the number of pending requests
Unseen ==
  /\ since' = [i \in DOMAIN requests' |-> "nothing"]
  /\ UNCHANGED <<life, released, failed, lastOp>>

(* --------------------------- specifications ---------------------------- *)
\* one mesh, with the history of its calls and callbacks
TheView == CHOOSE v \in Views : \A w \in Views : v <= w

Next ==
  \/ \E value \in Specifiers :
       _setTexture(TheView, value) /\ SetTextureSeen(TheView, value)
  \/ \E i \in 1..MaxRequests : Resolve(i) /\ ResolveSeen(i)
  \/ \E i \in 1..MaxRequests : Reject(i) /\ RejectSeen(i)
  \/ dispose(TheView) /\ DisposeSeen(TheView)
  \/ \E k \in Keys : LoadSucceeds(k) /\ ManagerSeen("load", k)
  \/ \E k \in Keys : LoadFails(k) /\ ManagerSeen("load error", k)
  \/ \E k \in Keys : Evict(k) /\ ManagerSeen("evict", k)

Spec == Init /\ [][Next]_vars

\* one specifier for each thing _setTexture can do: null clears, an object
\* with a string uri asks for that url as the string itself would, an object
\* without one makes it throw
SharedSpecifiers ==
  {value \in Specifiers :
     value.kind = "null" \/ (value.kind = "object" /\ value.uri # "")}

\* several meshes sharing one TextureManager, without the history
NextShared ==
  \/ \E v \in Views, value \in SharedSpecifiers :
       _setTexture(v, value) /\ Unseen
  \/ \E i \in 1..MaxRequests : Resolve(i) /\ Unseen
  \/ \E i \in 1..MaxRequests : Reject(i) /\ Unseen
  \/ \E v \in Views : dispose(v) /\ Unseen
  \/ \E k \in Keys : LoadSucceeds(k) /\ Unseen
  \/ \E k \in Keys : LoadFails(k) /\ Unseen
  \/ \E k \in Keys : Evict(k) /\ Unseen

SpecShared == Init /\ [][NextShared]_vars

TypeOK ==
  /\ textureURL \in [Views -> Keys \cup {Null}]
  /\ loadingURL \in [Views -> Keys \cup {Null}]
  /\ texture \in [Views -> {TextureFor(k) : k \in Keys} \cup {Null}]
  /\ refcount \in [Keys -> Int]
  /\ life \in [Views -> {"live", "disposed", "reused"}]
  /\ released \in [Views -> Keys \cup {Null}]
  /\ issued \in 0..MaxRequests
  /\ Len(requests) <= issued
  /\ Len(since) = Len(requests)
  /\ resource \in [Keys -> {TextureFor(k) : k \in Keys} \cup {Null}]
  /\ pending \in [Keys -> BOOLEAN]
  /\ loading \in [Keys -> 0..MaxRequests]
  /\ outcome \in Seq({"waiting", "fulfilled", "rejected"})
  /\ Len(outcome) = Len(requests)

(* ------------------------------- claims -------------------------------- *)
\* number of pending requests of view v for url
PendingCount(v, url) ==
  Cardinality({i \in DOMAIN requests : requests[i] = NewRequest(v, url)})

\* the step just taken is the call or callback `op` on view v
Ran(op, v) == lastOp'.op = op /\ lastOp'.view = v

\* C1: once dispose() has run on a view whose earlier _setTexture calls have
\* all settled, and no _setTexture(url) came after the dispose, the view has
\* made as many removeReference calls as addReference calls for every url.
C1_ReferenceBalance ==
  \A v \in Views :
    (life[v] = "disposed" /\ PendingOf(v) = {}) =>
      \A k \in Keys : held[v][k] = 0

\* C2: the success callback of a request that a later _setTexture with another
\* url has superseded never makes its texture the view's texture.
C2_SupersededNeverApplied ==
  ~(lastOp.op = "resolve" /\ lastOp.since = "superseded" /\ lastOp.applied)

\* C3: when the fetch of the most recent request of a view succeeds, and the
\* view was neither cleared nor disposed since, the view is bound to that
\* request's url and texture, whatever became of the earlier requests.  (The
\* case is left aside where a fetch of this very url failed on the view
\* before: a manager that shares one load among the fetches of a url could
\* not then make this one succeed.)
C3_LatestRequestWins ==
  (lastOp.op = "resolve" /\ lastOp.since = "nothing"
     /\ lastOp.url \notin failed[lastOp.view]) =>
    /\ textureURL[lastOp.view] = lastOp.url
    /\ texture[lastOp.view] = TextureFor(lastOp.url)

\* C4: _setTexture(null) with a fetch in flight leaves _loadingURL null, and
\* when that fetch then succeeds the view stays unbound, its material maps stay
\* null and the reference taken for the fetch has been given back.
C4_ClearInvalidatesLoad ==
  /\ (lastOp.op = "_setTexture" /\ lastOp.arg = "none"
        /\ PendingOf(lastOp.view) # {}) =>
       loadingURL[lastOp.view] = Null
  /\ (lastOp.op = "resolve" /\ lastOp.since \in {"cleared", "cleared, disposed"}) =>
       /\ textureURL[lastOp.view] = Null
       /\ texture[lastOp.view] = Null
       /\ litMaterial[lastOp.view].map = Null
       /\ unlitMaterial[lastOp.view].map = Null
       /\ held[lastOp.view][lastOp.url] = PendingCount(lastOp.view, lastOp.url)

\* C5: when a fetch that was in flight at dispose() settles, with success or
\* failure, its result is not applied: the view stays unbound and the
\* reference taken for the fetch has been given back.
C5_NoResultAfterDispose ==
  (lastOp.op \in {"resolve", "reject"}
     /\ lastOp.since \in {"disposed", "cleared, disposed"}) =>
    /\ ~lastOp.applied
    /\ textureURL[lastOp.view] = Null
    /\ texture[lastOp.view] = Null
    /\ held[lastOp.view][lastOp.url] = PendingCount(lastOp.view, lastOp.url)

\* C6: _setTexture with the url that is already bound or already loading
\* makes no addReference call, starts no fetch and changes nothing.
C6_RedundantBindIsNoOp ==
  [][\A v \in Views :
       (Ran("_setTexture", v) /\ lastOp'.arg = "key"
          /\ lastOp'.url \in {textureURL[v], loadingURL[v]}) =>
         UNCHANGED <<textureURL, loadingURL, texture, refcount, held,
                     requests, issued>>]_vars

\* C7: dispose() of a bound view with nothing in flight leaves it holding no
\* reference, and every later _setTexture(url) on that view adds no reference
\* and starts no fetch.
C7_InertAfterDispose ==
  [][\A v \in Views :
       /\ (Ran("dispose", v) /\ textureURL[v] \in Keys /\ PendingOf(v) = {}) =>
            \A k \in Keys : held'[v][k] = 0
       /\ (Ran("_setTexture", v) /\ lastOp'.arg = "key"
             /\ life[v] # "live" /\ released[v] \in Keys) =>
            UNCHANGED <<refcount, held, requests, issued>>]_vars

\* C8: with several views sharing the manager, the reference count of every
\* url is at least the number of views bound to it.
BoundTo(k) == {v \in Views : textureURL[v] = k}

C8_NoReleaseWhileInUse ==
  \A k \in Keys : refcount[k] >= Cardinality(BoundTo(k))

\* two views are bound to one url while a third reference is held for a fetch
C8_Witness ==
  \E k \in Keys :
    /\ Cardinality(BoundTo(k)) >= 2
    /\ refcount[k] > Cardinality(BoundTo(k))

\* C9: _setTexture with a non-empty specifier from which no url can be derived
\* throws and changes nothing: no reference added or removed, no fetch, and
\* _textureURL, _loadingURL and _texture as they were.
C9_InvalidSpecifierRejected ==
  [][\A v \in Views :
       (Ran("_setTexture", v) /\ lastOp'.arg = "invalid") =>
         (lastOp'.threw /\ UNCHANGED program)]_vars

\* an invalid specifier was rejected while a fetch was in flight
C9_Witness ==
  /\ lastOp.op = "_setTexture"
  /\ lastOp.arg = "invalid"
  /\ lastOp.threw
  /\ PendingOf(lastOp.view) # {}
  /\ loadingURL[lastOp.view] \in Keys

\* C10: the failure callback of a request that was not superseded gives back
\* the request's reference, once, sets _loadingURL to null and leaves
\* _textureURL, _texture and the materials alone; and every later
\* _setTexture with that url adds a reference and starts a fetch again.
C10_LoadFailureNotFatal ==
  [][\A v \in Views :
       /\ (Ran("reject", v) /\ lastOp'.since # "superseded") =>
            /\ held' = [held EXCEPT ![v][lastOp'.url] = @ - 1]
            /\ refcount' = [refcount EXCEPT ![lastOp'.url] = @ - 1]
            /\ loadingURL'[v] = Null
            /\ UNCHANGED <<textureURL, texture, litMaterial, unlitMaterial>>
       /\ (Ran("_setTexture", v) /\ lastOp'.arg = "key"
             /\ lastOp'.url \in failed[v]) =>
            /\ held' = [held EXCEPT ![v][lastOp'.url] = @ + 1]
            /\ refcount' = [refcount EXCEPT ![lastOp'.url] = @ + 1]
            /\ requests' = Append(requests, NewRequest(v, lastOp'.url))
            /\ issued' = issued + 1]_vars

\* a bound view asks again for a url whose fetch failed
C10_Witness ==
  /\ lastOp.op = "_setTexture"
  /\ lastOp.arg = "key"
  /\ lastOp.url \in failed[lastOp.view]
  /\ textureURL[lastOp.view] \in Keys
  /\ loadingURL[lastOp.view] = lastOp.url
  /\ requests # <<>>
  /\ requests[Len(requests)] = NewRequest(lastOp.view, lastOp.url)

\* C11: the manager runs at most one load per url: a fetch of a url whose load
\* is in flight starts no second load, and when the load settles every fetch
\* waiting for that url gets the same outcome, the texture or the error.
C11_OneLoadPerKey ==
  [][\A k \in Keys :
       /\ loading'[k] <= 1
       /\ (loading'[k] > loading[k]) => ~pending[k]
       /\ (loading'[k] < loading[k]) =>
            \E o \in {"fulfilled", "rejected"} :
              \A i \in DOMAIN requests :
                (requests[i].url = k /\ outcome[i] = "waiting") =>
                  outcome'[i] = o]_vars

\* two views wait for one url, on one load
C11_Witness ==
  \E k \in Keys : \E i, j \in DOMAIN requests :
    /\ requests[i].view # requests[j].view
    /\ requests[i].url = k /\ requests[j].url = k
    /\ outcome[i] = "waiting" /\ outcome[j] = "waiting"
    /\ loading[k] = 1

\* C12: the failure callback of a request that a later _setTexture with
\* another url has superseded, that url still loading, gives back the failed
\* request's reference, once, and leaves _loadingURL, _textureURL and _texture
\* as they were.
C12_StaleFailureFrame ==
  [][\A v \in Views :
       (Ran("reject", v) /\ lastOp'.since = "superseded"
          /\ loadingURL[v] \in Keys \ {lastOp'.url}) =>
         /\ held' = [held EXCEPT ![v][lastOp'.url] = @ - 1]
         /\ refcount' = [refcount EXCEPT ![lastOp'.url] = @ - 1]
         /\ UNCHANGED <<loadingURL, textureURL, texture>>]_vars

\* C13: the success callback of a request whose url is no longer _loadingURL
\* gives back the request's reference, once, and leaves _loadingURL,
\* _textureURL, _texture and the maps of both materials as they were.
C13_StaleSuccessFrame ==
  [][\A v \in Views :
       (Ran("resolve", v) /\ loadingURL[v] # lastOp'.url) =>
         /\ held' = [held EXCEPT ![v][lastOp'.url] = @ - 1]
         /\ refcount' = [refcount EXCEPT ![lastOp'.url] = @ - 1]
         /\ UNCHANGED <<loadingURL, textureURL, texture, litMaterial,
                        unlitMaterial>>]_vars

\* a stale success left a bound view bound, with another url still loading
C13_Witness ==
  /\ lastOp.op = "resolve"
  /\ ~lastOp.applied
  /\ textureURL[lastOp.view] \in Keys
  /\ loadingURL[lastOp.view] \in Keys \ {lastOp.url}

\* C14: the success callback of a request whose url is still _loadingURL gives
\* back the reference of the url bound before, once, if there was one, and
\* makes no removeReference call otherwise; it leaves _textureURL at the url,
\* _loadingURL null, and _texture and the maps of both materials at the
\* fetched texture; the view still holds a reference for the url.
C14_CurrentSuccessEffect ==
  [][\A v \in Views :
       (Ran("resolve", v) /\ loadingURL[v] = lastOp'.url) =>
         /\ IF textureURL[v] \in Keys
            THEN /\ held' = [held EXCEPT ![v][textureURL[v]] = @ - 1]
                 /\ refcount' = [refcount EXCEPT ![textureURL[v]] = @ - 1]
            ELSE UNCHANGED <<held, refcount>>
         /\ textureURL'[v] = lastOp'.url
         /\ loadingURL'[v] = Null
         /\ texture'[v] = TextureFor(lastOp'.url)
         /\ litMaterial'[v].map = texture'[v]
         /\ unlitMaterial'[v].map = texture'[v]
         /\ held'[v][lastOp'.url] >= 1]_vars

\* a second request of the view was applied with nothing else in flight, the
\* view holding one reference, for the url now bound
C14_Witness ==
  /\ lastOp.op = "resolve"
  /\ lastOp.applied
  /\ issued >= 2
  /\ requests = <<>>
  /\ failed[lastOp.view] = {}
  /\ textureURL[lastOp.view] = lastOp.url
  /\ held[lastOp.view] = [k \in Keys |-> IF k = lastOp.url THEN 1 ELSE 0]

\* C15: _setTexture(null) on a bound view gives back the reference of
\* _textureURL, once, and on an unbound view makes no call to the manager; in
\* both cases it leaves _textureURL and _texture null and the maps of both
\* materials null, adds no reference and starts no fetch.
C15_ClearEffect ==
  [][\A v \in Views :
       (Ran("_setTexture", v) /\ lastOp'.arg = "none") =>
         /\ IF textureURL[v] \in Keys
            THEN /\ held' = [held EXCEPT ![v][textureURL[v]] = @ - 1]
                 /\ refcount' = [refcount EXCEPT ![textureURL[v]] = @ - 1]
            ELSE UNCHANGED <<held, refcount>>
         /\ textureURL'[v] = Null
         /\ texture'[v] = Null
         /\ litMaterial'[v].map = Null
         /\ unlitMaterial'[v].map = Null
         /\ UNCHANGED <<requests, outcome, issued, resource, pending,
                        loading>>]_vars

\* the only request of a view was applied, and _setTexture(null) then gave its
\* reference back
C15_Witness ==
  /\ lastOp.op = "_setTexture"
  /\ lastOp.arg = "none"
  /\ life[lastOp.view] = "live"
  /\ issued = 1
  /\ requests = <<>>
  /\ failed[lastOp.view] = {}
  /\ \E k \in Keys : HasResource(k)
  /\ textureURL[lastOp.view] = Null
  /\ \A k \in Keys : held[lastOp.view][k] = 0 /\ refcount[k] = 0

\* C16: _setTexture with a url that is neither bound nor loading sets
\* _loadingURL to it and adds one reference for it, and leaves _textureURL,
\* _texture, the maps of both materials and every other reference the view
\* holds as they were; and as long as the load of that url has not settled
\* and no call is made on the view, no callback changes _textureURL or
\* _texture or takes the bound url's reference away.
C16_LoadingKeepsOldBinding ==
  [][\A v \in Views :
       /\ (Ran("_setTexture", v) /\ lastOp'.arg = "key"
             /\ lastOp'.url \notin {textureURL[v], loadingURL[v]}) =>
         /\ loadingURL'[v] = lastOp'.url
         /\ held' = [held EXCEPT ![v][lastOp'.url] = @ + 1]
         /\ refcount' = [refcount EXCEPT ![lastOp'.url] = @ + 1]
         /\ UNCHANGED <<textureURL, texture, litMaterial, unlitMaterial>>
       /\ ((\E i \in PendingOf(v) :
               since[i] = "nothing" /\ outcome[i] = "waiting")
            /\ lastOp'.op \notin {"_setTexture", "dispose"}) =>
           /\ UNCHANGED <<textureURL, texture>>
           /\ textureURL[v] \in Keys => held'[v][textureURL[v]] >= 1]_vars

\* a view bound to one url is loading another
C16_Witness ==
  /\ lastOp.op = "_setTexture"
  /\ lastOp.arg = "key"
  /\ textureURL[lastOp.view] \in Keys \ {lastOp.url}
  /\ loadingURL[lastOp.view] = lastOp.url
  /\ held[lastOp.view] = [k \in Keys |-> 1]
  /\ litMaterial[lastOp.view].map = TextureFor(textureURL[lastOp.view])

\* C17: in every state of one view and for every url, the view's addReference
\* calls minus its removeReference calls equal one if the url is bound, else
\* none, plus the number of its requests for the url whose callback has not
\* run.
C17_ReferenceAccounting ==
  \A k \in Keys :
    held[TheView][k] =
      (IF textureURL[TheView] = k THEN 1 ELSE 0) + PendingCount(TheView, k)

\* the view holds three references: one for the bound url, one for a pending
\* request for it and one for a pending request for another url
C17_Witness ==
  \E k \in Keys :
    /\ textureURL[TheView] = k
    /\ held[TheView][k] = 2
    /\ \E j \in Keys \ {k} : held[TheView][j] = 1

\* C18: no view calls removeReference(url) unless it has made more
\* addReference(url) calls than removeReference(url) calls before, so the
\* manager's count of no url goes below zero, whatever the order of the calls
\* and callbacks of the views.
C18_NoReferenceUnderflow ==
  [][/\ \A v \in Views : \A k \in Keys :
          held'[v][k] < held[v][k] => held[v][k] > 0
     /\ \A k \in Keys : refcount'[k] >= 0]_vars

\* every request was made and has settled, one view was disposed and holds
\* nothing, another is still bound, with the url's only reference
C18_Witness ==
  /\ issued = MaxRequests
  /\ requests = <<>>
  /\ \E v, w \in Views : \E k \in Keys :
       /\ litMaterial[v].disposed
       /\ litMaterial[v].map # Null
       /\ \A j \in Keys : held[v][j] = 0
       /\ textureURL[w] = k
       /\ refcount[k] = 1

\* C19: in every state _texture is set exactly when _textureURL is, and right
\* after a _setTexture call or a success callback of a view the maps of its
\* lit and unlit materials both are its _texture (null when it is unbound).
\* Stated for the views used as documented, on which no _setTexture is called
\* once dispose() has run: the success callbacks of the requests in flight at
\* dispose() remain.
C19_BoundStateConsistency ==
  \A v \in Views :
    /\ texture[v] # Null <=> textureURL[v] # Null
    /\ (lastOp.view = v
         /\ \/ lastOp.op = "_setTexture" /\ life[v] = "live"
            \/ lastOp.op = "resolve" /\ life[v] # "reused") =>
         /\ litMaterial[v].map = texture[v]
         /\ unlitMaterial[v].map = texture[v]
=============================================================================
